---- MODULE Spec2Model ----
(***************************************************************************)
(* State-machine model of the NASA space explorer gallery page.            *)
(*                                                                         *)
(* Two variants of the page script exist in the repository:                *)
(*   "selector" : src/js/script.js      (date selector, cached records)    *)
(*   "plain"    : src/unnamed/part_000  (no selector, no cache)            *)
(* The variable `variant` fixes which script the page runs.                *)
(*                                                                         *)
(* Strings that the code compares, sorts or formats (dates) are sequences  *)
(* of character codes; strings that the code only tests for presence and   *)
(* copies (titles, URLs) are TLA+ strings, "" standing for a missing or    *)
(* empty field (both are falsy in every test the code makes of them).      *)
(* All DOM elements the scripts look up are taken to exist.                *)
(***************************************************************************)
EXTENDS Integers, Sequences, FiniteSets, TLC

VARIABLES
    variant,          \* which script runs on the page
    phase,            \* "loading": script evaluated, init() not yet run
    allItems,         \* script.js:12  cached records
    btnDisabled,      \* getImageBtn.disabled
    btnText,          \* getImageBtn.textContent
    selDisabled,      \* dateSelector.disabled
    selValue,         \* dateSelector.value
    selOptions,       \* values of the options after "All dates"
    gallery,          \* content of #gallery
    clickPc,          \* position of the fetch-button handler
    loadPc,           \* position of loadDataAndPopulateDates
    modalHidden,      \* modal aria-hidden = "true"
    modalMedia,       \* children of #modalMedia
    modalTitle,
    modalDate,
    modalExplanation,
    everSucceeded,    \* history: some feed retrieval has succeeded
    factText,         \* didYouKnowText.textContent: 0 is the page's own text,
                      \* n > 0 is SPACE_FACTS[n - 1]
    factVisible,      \* didYouKnow.classList contains 'visible'
    factHidden,       \* didYouKnow.classList contains 'hidden'
    factTimers,       \* pending setTimeout callbacks: ticks left, oldest first
    fcPc,             \* position of one caller of fetchCdnJson
    fcCalls,          \* history: calls of fetchCdnJson made by that caller
    fcRequests,       \* history: network requests those calls have made
    fcResp,           \* the response the last request got
    fcResult          \* what the last call returned or threw

vars == <<variant, phase, allItems, btnDisabled, btnText, selDisabled, selValue,
          selOptions, gallery, clickPc, loadPc, modalHidden, modalMedia,
          modalTitle, modalDate, modalExplanation, everSucceeded,
          factText, factVisible, factHidden, factTimers,
          fcPc, fcCalls, fcRequests, fcResp, fcResult>>

factVars == <<factText, factVisible, factHidden, factTimers>>
fetchVars == <<fcPc, fcCalls, fcRequests, fcResp, fcResult>>
pageVars == <<variant, phase, allItems, btnDisabled, btnText, selDisabled, selValue,
              selOptions, gallery, clickPc, loadPc, modalHidden, modalMedia,
              modalTitle, modalDate, modalExplanation, everSucceeded>>

modalVars == <<modalHidden, modalMedia, modalTitle, modalDate, modalExplanation>>
feedVars == <<allItems, btnDisabled, btnText, selDisabled, selValue, selOptions,
              gallery, clickPc, loadPc, everSucceeded>>

(***************************************************************************)
(* Bounds                                                                  *)
(***************************************************************************)
MaxLen == 2        \* longest feed array delivered by the network
MaxTimers == 3     \* most fact-panel timers pending at once
TicksPerDelay == 2 \* the 1200 ms delay of the fact panel, in clock ticks
MaxCalls == 3      \* most calls of fetchCdnJson one caller makes

(***************************************************************************)
(* Character codes and date strings                                        *)
(***************************************************************************)
Code == [hyphen |-> 45, zero |-> 48, space |-> 32, comma |-> 44]
Hyphen == Code.hyphen
Zero == Code.zero
Ch(d) == Zero + d
IsDigit(c) == c \in Zero..(Zero + 9)

TwoDigits(n) == <<Ch(n \div 10), Ch(n % 10)>>
FourDigits(n) == <<Ch(n \div 1000), Ch((n \div 100) % 10), Ch((n \div 10) % 10), Ch(n % 10)>>
\* "YYYY-MM-DD" and "YYYY-MM" as code sequences
IsoDate(y, m, d) == FourDigits(y) \o <<Hyphen>> \o TwoDigits(m) \o <<Hyphen>> \o TwoDigits(d)
IsoMonth(y, m) == FourDigits(y) \o <<Hyphen>> \o TwoDigits(m)
EmptyStr == <<>>

MonthNames == <<
    <<74,97,110,117,97,114,121>>, <<70,101,98,114,117,97,114,121>>, <<77,97,114,99,104>>,
    <<65,112,114,105,108>>, <<77,97,121>>, <<74,117,110,101>>, <<74,117,108,121>>,
    <<65,117,103,117,115,116>>, <<83,101,112,116,101,109,98,101,114>>,
    <<79,99,116,111,98,101,114>>, <<78,111,118,101,109,98,101,114>>,
    <<68,101,99,101,109,98,101,114>> >>
InvalidDate == <<73,110,118,97,108,105,100,32,68,97,116,101>>
CommaSpace == <<Code.comma, Code.space>>
Space == <<Code.space>>

RECURSIVE Num(_)
\* numeric value of a string of digits
Num(s) == IF s = <<>> THEN 0 ELSE 10 * Num(SubSeq(s, 1, Len(s) - 1)) + (s[Len(s)] - Zero)

RECURSIVE Decimal(_)
\* decimal digits of n without leading zeros
Decimal(n) == IF n < 10 THEN <<Ch(n)>> ELSE Decimal(n \div 10) \o <<Ch(n % 10)>>

AllDigits(s) == \A i \in 1..Len(s) : IsDigit(s[i])

\* new Date(dateString + 'T00:00:00'): the date part of the ISO date-time
\* format is YYYY, YYYY-MM or YYYY-MM-DD; anything else gives an invalid Date.
\* Days after the 28th, whose handling differs between months and engines, are
\* outside the dates the model feeds in.
ParseIsoDate(s) ==
    LET yOk == Len(s) >= 4 /\ AllDigits(SubSeq(s, 1, 4))
        mOk == Len(s) >= 7 /\ s[5] = Hyphen /\ AllDigits(SubSeq(s, 6, 7))
        dOk == Len(s) = 10 /\ s[8] = Hyphen /\ AllDigits(SubSeq(s, 9, 10))
        y == Num(SubSeq(s, 1, 4))
        m == IF Len(s) >= 7 THEN Num(SubSeq(s, 6, 7)) ELSE 1
        d == IF Len(s) = 10 THEN Num(SubSeq(s, 9, 10)) ELSE 1
        shape == \/ Len(s) = 4 /\ yOk
                 \/ Len(s) = 7 /\ yOk /\ mOk
                 \/ Len(s) = 10 /\ yOk /\ mOk /\ dOk
    IN  IF shape /\ m \in 1..12 /\ d \in 1..28
        THEN [valid |-> TRUE, year |-> y, month |-> m, day |-> d]
        ELSE [valid |-> FALSE, year |-> 0, month |-> 1, day |-> 1]

\* script.js:30-42
formatDate(dateString) ==
    IF dateString = EmptyStr THEN EmptyStr
    ELSE LET p == ParseIsoDate(dateString)
         IN  IF p.valid
             THEN MonthNames[p.month] \o Space \o Decimal(p.day) \o CommaSpace \o Decimal(p.year)
             ELSE InvalidDate

RECURSIVE localeCompare(_, _)
\* a.localeCompare(b) for strings of digits and hyphens: the collation order of
\* these characters is their code order, and a proper prefix sorts first.
localeCompare(a, b) ==
    IF a = <<>> /\ b = <<>> THEN 0
    ELSE IF a = <<>> THEN -1
    ELSE IF b = <<>> THEN 1
    ELSE IF Head(a) < Head(b) THEN -1
    ELSE IF Head(a) > Head(b) THEN 1
    ELSE localeCompare(Tail(a), Tail(b))

(***************************************************************************)
(* Records of the feed                                                     *)
(***************************************************************************)
ImgUrl == "https://x/img.png"
HdUrl == "https://x/img_hd.png"
ThumbUrl == "https://x/thumb.jpg"
TubeUrl == "https://www.youtube.com/watch?v=abc"
OtherVideoUrl == "https://vimeo.com/1"

Date1 == IsoDate(2021, 1, 1)
Date2 == IsoDate(2021, 3, 5)
DatePrefix == IsoMonth(2021, 1)     \* a proper prefix of Date1

MkRecord(d, t, e, mt, u, hd, th) ==
    [date |-> d, title |-> t, explanation |-> e, media_type |-> mt,
     url |-> u, hdurl |-> hd, thumbnail_url |-> th]

\* every combination of present/absent fields and media kinds, for the views
AllRecords ==
    [date : {EmptyStr, Date1},
     title : {"", "Test"},
     explanation : {"", "Text"},
     media_type : {"image", "video", "audio", ""},
     url : {"", ImgUrl, TubeUrl, OtherVideoUrl},
     hdurl : {"", HdUrl},
     thumbnail_url : {"", ThumbUrl}]

\* the records feeds are built from: three dates, one a proper prefix of
\* another, a missing date, and each kind of card (a feed may hold a record
\* twice, which gives records sharing a date)
SampleRecords ==
    { MkRecord(Date1, "Test", "Text", "image", ImgUrl, HdUrl, ""),
      MkRecord(Date2, "", "", "video", TubeUrl, "", ""),
      MkRecord(DatePrefix, "", "Text", "audio", OtherVideoUrl, "", ThumbUrl),
      MkRecord(EmptyStr, "Test", "", "image", "", "", "") }

SeqsUpTo(S, n) == UNION { [1..k -> S] : k \in 0..n }
Feeds == SeqsUpTo(SampleRecords, MaxLen)

(***************************************************************************)
(* Network responses and fetchCdnJson                                      *)
(***************************************************************************)
\* body: "unparsable", a non-array JSON value, or a JSON array of records
Responses ==
    { [ok |-> FALSE, parses |-> TRUE, isArray |-> TRUE, data |-> << >>],
      [ok |-> TRUE, parses |-> FALSE, isArray |-> FALSE, data |-> << >>],
      [ok |-> TRUE, parses |-> TRUE, isArray |-> FALSE, data |-> << >>] }
    \cup [ok : {TRUE}, parses : {TRUE}, isArray : {TRUE}, data : Feeds]

\* variant of fetchCdnJson without the test of the payload's shape
fetchCdnJson_noArrayCheck(resp) ==
    IF ~resp.ok THEN [threw |-> TRUE, data |-> <<>>]
    ELSE IF ~resp.parses THEN [threw |-> TRUE, data |-> <<>>]
    ELSE [threw |-> FALSE, data |-> resp.data]

\* script.js:148-163, part_000:72-87
fetchCdnJson(resp) ==
    IF ~resp.ok THEN [threw |-> TRUE, data |-> <<>>]
    ELSE IF ~resp.parses THEN [threw |-> TRUE, data |-> <<>>]
    ELSE IF ~resp.isArray THEN [threw |-> TRUE, data |-> <<>>]
    ELSE [threw |-> FALSE, data |-> resp.data]

\* before the first call: no response received, nothing returned
NoResponse == [ok |-> FALSE, parses |-> FALSE, isArray |-> FALSE, data |-> << >>]
NoResult == [threw |-> FALSE, data |-> << >>]

(***************************************************************************)
(* Facts                                                                   *)
(***************************************************************************)
\* script.js:15-21, part_000:10-16 (the texts are abbreviated)
SPACE_FACTS ==
    << "A day on Venus ...", "Neutron stars ...", "There are more stars ...",
       "Saturn's rings ...", "The footprints on the Moon ..." >>

\* the values randomFact() can return: script.js:24-26, part_000:19-21
randomFact == { SPACE_FACTS[i] : i \in 1..Len(SPACE_FACTS) }

(***************************************************************************)
(* Video-host recognition (not defined in the scripts, which only call it) *)
(***************************************************************************)
getYouTubeThumbnail(url) ==
    IF url = TubeUrl THEN "https://img.youtube.com/vi/abc/hqdefault.jpg" ELSE ""

getYouTubeEmbedUrl(url) ==
    IF url = TubeUrl THEN "https://www.youtube.com/embed/abc" ELSE ""

(***************************************************************************)
(* Elements                                                                *)
(***************************************************************************)
\* one shape for every element: unused attributes are ""
El(tag, src, href, text, play) ==
    [tag |-> tag, src |-> src, href |-> href, text |-> text, play |-> play]
NoEl == El("none", "", "", "", "")

Or(a, b) == IF a # "" THEN a ELSE b      \* a || b on strings

\* variant of cardMedia that looks for a thumbnail before the media kind
cardMedia_thumbnailFirst(item) ==
    IF item.url # "" /\ item.thumbnail_url # ""
    THEN El("a-img", item.thumbnail_url, item.url, "", "")
    ELSE IF item.media_type = "image" /\ item.url # ""
    THEN El("img", item.url, "", "", "")
    ELSE IF item.url # ""
    THEN El("a", "", item.url, "Open", "")
    ELSE NoEl

\* the media element of a card: script.js:176-214, part_000:107-145
cardMedia(item) ==
    IF item.media_type = "image" /\ item.url # ""
    THEN El("img", item.url, "", "", "")
    ELSE IF item.url # ""
    THEN IF item.thumbnail_url # ""
         THEN El("a-img", item.thumbnail_url, item.url, "", "")
         ELSE El("a", "", item.url, "Open", "")
    ELSE NoEl

\* script.js:166-254, part_000:90-170
createGalleryItem(item) ==
    [item |-> item,
     media |-> cardMedia(item),
     title |-> Or(item.title, "Untitled"),
     date |-> IF variant = "selector" THEN formatDate(item.date) ELSE item.date]

RECURSIVE renderItems(_)
renderItems(items) ==
    IF items = <<>> THEN <<>>
    ELSE <<createGalleryItem(Head(items))>> \o renderItems(Tail(items))

\* variant of renderGallery without the placeholder for no items
renderGallery_noPlaceholder(items) == [kind |-> "cards", cards |-> renderItems(items)]

\* script.js:257-274, part_000:173-190
renderGallery(items) ==
    IF Len(items) = 0
    THEN [kind |-> "empty", cards |-> <<>>]
    ELSE [kind |-> "cards", cards |-> renderItems(items)]

LoadingPlaceholder == [kind |-> "loading", cards |-> <<>>]
ErrorPlaceholder == [kind |-> "error", cards |-> <<>>]
InitialPlaceholder == [kind |-> "initial", cards |-> <<>>]

\* the image shown for an image record: script.js:321, part_000:215
modalImageSrc_urlFirst(item) == Or(item.url, item.hdurl)

modalImageSrc(item) == Or(item.hdurl, item.url)

\* the controls under a video: script.js:342-378, part_000:236-272
videoControls_linkOnlyFallback(item) ==
    LET embedUrl == getYouTubeEmbedUrl(item.url)
    IN  IF embedUrl # ""
        THEN El("controls", "", item.url, "Open video in new tab", embedUrl)
        ELSE El("controls", "", "", "", "")

videoControls(item) ==
    LET embedUrl == getYouTubeEmbedUrl(item.url)
    IN  El("controls", "", item.url, "Open video in new tab", embedUrl)

\* variant of modalMediaFor that embeds a recognised video when the modal opens
modalMediaFor_autoEmbed(item) ==
    IF item.media_type = "image" /\ Or(item.hdurl, item.url) # ""
    THEN << El("img", modalImageSrc(item), "", "", "") >>
    ELSE IF item.media_type = "video"
    THEN IF getYouTubeEmbedUrl(item.url) # ""
         THEN << El("iframe", getYouTubeEmbedUrl(item.url), "", "", "") >>
         ELSE << El("p", "", "", "Video (no thumbnail available).", ""),
                 videoControls(item) >>
    ELSE IF item.url # ""
    THEN << El("a", "", item.url, "Open media", "") >>
    ELSE << >>

\* the children openModal puts into #modalMedia: script.js:318-387, part_000:212-281
modalMediaFor(item) ==
    IF item.media_type = "image" /\ Or(item.hdurl, item.url) # ""
    THEN << El("img", modalImageSrc(item), "", "", "") >>
    ELSE IF item.media_type = "video"
    THEN LET thumbSrc == Or(item.thumbnail_url, getYouTubeThumbnail(item.url))
             first == IF thumbSrc # ""
                      THEN El("img", thumbSrc, "", "", "")
                      ELSE El("p", "", "", "Video (no thumbnail available).", "")
         IN  << first, videoControls(item) >>
    ELSE IF item.url # ""
    THEN << El("a", "", item.url, "Open media", "") >>
    ELSE << >>

\* variant of openModal that adds the media to those already in the modal
openModal_appends(item) ==
    /\ modalMedia' = modalMedia \o modalMediaFor(item)
    /\ modalTitle' = Or(item.title, "Untitled")
    /\ modalDate' = IF variant = "selector" THEN formatDate(item.date) ELSE item.date
    /\ modalExplanation' = item.explanation
    /\ modalHidden' = FALSE

\* openModal: script.js:306-394, part_000:201-288
openModal(item) ==
    /\ modalMedia' = modalMediaFor(item)
    /\ modalTitle' = Or(item.title, "Untitled")
    /\ modalDate' = IF variant = "selector" THEN formatDate(item.date) ELSE item.date
    /\ modalExplanation' = item.explanation
    /\ modalHidden' = FALSE

\* variant of closeModal that hides the modal and leaves its media
closeModal_keepsMedia ==
    /\ modalHidden' = TRUE
    /\ UNCHANGED <<modalMedia, modalTitle, modalDate, modalExplanation>>

\* closeModal: script.js:396-401, part_000:290-295
closeModal ==
    /\ modalHidden' = TRUE
    /\ modalMedia' = << >>
    /\ UNCHANGED <<modalTitle, modalDate, modalExplanation>>

(***************************************************************************)
(* Filter and date selector                                                *)
(***************************************************************************)
RECURSIVE filterByDate_prefix(_, _)
\* variant of filterByDate that keeps the records whose date the value starts with
filterByDate_prefix(items, selectedDate) ==
    IF items = <<>> THEN <<>>
    ELSE IF /\ Len(Head(items).date) <= Len(selectedDate)
            /\ SubSeq(selectedDate, 1, Len(Head(items).date)) = Head(items).date
         THEN <<Head(items)>> \o filterByDate_prefix(Tail(items), selectedDate)
         ELSE filterByDate_prefix(Tail(items), selectedDate)

RECURSIVE filterByDate(_, _)
\* allItems.filter(item => item.date === selectedDate): script.js:108, 131
filterByDate(items, selectedDate) ==
    IF items = <<>> THEN <<>>
    ELSE IF Head(items).date = selectedDate
         THEN <<Head(items)>> \o filterByDate(Tail(items), selectedDate)
         ELSE filterByDate(Tail(items), selectedDate)

\* script.js:107-109, 130-132
itemsToDisplay(items, selectedDate) ==
    IF selectedDate # EmptyStr THEN filterByDate(items, selectedDate) ELSE items

RECURSIVE truthyDates(_)
\* items.map(item => item.date).filter(date => date): script.js:282
truthyDates(items) ==
    IF items = <<>> THEN <<>>
    ELSE IF Head(items).date # EmptyStr
         THEN <<Head(items).date>> \o truthyDates(Tail(items))
         ELSE truthyDates(Tail(items))

\* variant of the comparator with its arguments in the other order
compareDates_ascending(a, b) == localeCompare(a, b)

\* the comparator (a, b) => b.localeCompare(a): script.js:285
compareDates(a, b) == localeCompare(b, a)

RECURSIVE insertSorted(_, _)
\* x placed after every element that does not compare greater than it (stable)
insertSorted(x, sorted) ==
    IF sorted = <<>> THEN <<x>>
    ELSE IF compareDates(Head(sorted), x) <= 0
         THEN <<Head(sorted)>> \o insertSorted(x, Tail(sorted))
         ELSE <<x>> \o sorted

RECURSIVE sortDates(_)
\* dates.sort(comparator): script.js:285
sortDates(dates) ==
    IF dates = <<>> THEN <<>>
    ELSE insertSorted(dates[Len(dates)], sortDates(SubSeq(dates, 1, Len(dates) - 1)))

\* the option values populateDateSelector appends after "All dates": script.js:277-295
dateOptions(items) == sortDates(truthyDates(items))

\* populateDateSelector: the options are rebuilt, which leaves the first
\* option ("All dates", value "") selected
populateDateSelector(items) ==
    /\ selOptions' = dateOptions(items)
    /\ selValue' = EmptyStr

(***************************************************************************)
(* Page start                                                              *)
(***************************************************************************)
Variants == {"selector", "plain"}

Init ==
    /\ variant \in Variants
    /\ phase = "loading"
    /\ allItems = << >>
    /\ btnDisabled = FALSE
    /\ btnText = "initial"
    /\ selDisabled = FALSE
    /\ selValue = EmptyStr
    /\ selOptions = << >>
    /\ gallery = InitialPlaceholder
    /\ clickPc = "idle"
    /\ loadPc = "idle"
    /\ modalHidden = TRUE
    /\ modalMedia = << >>
    /\ modalTitle = ""
    /\ modalDate = EmptyStr
    /\ modalExplanation = ""
    /\ everSucceeded = FALSE
    /\ factText = ""
    /\ factVisible = FALSE
    /\ factHidden = FALSE
    /\ factTimers = << >>
    /\ fcPc = "idle"
    /\ fcCalls = 0
    /\ fcRequests = 0
    /\ fcResp = NoResponse
    /\ fcResult = NoResult

\* init(): script.js:45-138 (starts loadDataAndPopulateDates, which runs up to
\* its await: script.js:413-419), part_000:24-62
InitPage ==
    /\ phase = "loading"
    /\ phase' = "ready"
    /\ IF variant = "selector"
       THEN selDisabled' = TRUE /\ loadPc' = "awaiting"
       ELSE UNCHANGED <<selDisabled, loadPc>>
    /\ IF variant = "plain"
       THEN factText' \in randomFact       \* part_000:29-32
       ELSE UNCHANGED factText
    /\ UNCHANGED <<variant, allItems, btnDisabled, btnText, selValue, selOptions,
                   gallery, clickPc, everSucceeded>>
    /\ UNCHANGED modalVars
    /\ UNCHANGED <<factVisible, factHidden, factTimers, fetchVars>>

\* loadDataAndPopulateDates after its await: script.js:419-432
LoadCompleteWith(resp) ==
    /\ loadPc = "awaiting"
    /\   LET r == fetchCdnJson(resp)
         IN  IF ~r.threw
             THEN /\ allItems' = r.data
                  /\ populateDateSelector(r.data)
                  /\ selDisabled' = FALSE
                  /\ everSucceeded' = TRUE
             ELSE /\ selDisabled' = FALSE
                  /\ UNCHANGED <<allItems, selValue, selOptions, everSucceeded>>
    /\ loadPc' = "done"
    /\ UNCHANGED <<variant, phase, btnDisabled, btnText, gallery, clickPc>>
    /\ UNCHANGED modalVars
    /\ UNCHANGED <<factVars, fetchVars>>

LoadComplete == \E resp \in Responses : LoadCompleteWith(resp)

(***************************************************************************)
(* Fetch button                                                            *)
(***************************************************************************)
\* variant of mustFetch without the test of the cache
mustFetch_always == TRUE

\* whether the click handler fetches: script.js:97 (part_000:50 always does)
mustFetch == variant = "plain" \/ Len(allItems) = 0

ReadyText == IF variant = "selector" THEN "Get Space Images" ELSE "Fetch Space Images"

\* variant of the finally block that leaves the button as it is
clickFinally_buttonKept ==
    /\ UNCHANGED btnDisabled
    /\ btnText' = ReadyText
    /\ IF variant = "selector" THEN selDisabled' = FALSE ELSE UNCHANGED selDisabled

\* the finally block: script.js:116-120, part_000:57-60
clickFinally ==
    /\ btnDisabled' = FALSE
    /\ btnText' = ReadyText
    /\ IF variant = "selector" THEN selDisabled' = FALSE ELSE UNCHANGED selDisabled

\* variant of the catch block that leaves the gallery as it is
clickCatch_silent == UNCHANGED gallery

\* the catch block: script.js:113-115, part_000:54-56
clickCatch == gallery' = ErrorPlaceholder

\* the click handler up to its await: script.js:86-98, part_000:40-50
ClickStart ==
    /\ phase = "ready"
    /\ ~btnDisabled
    /\ mustFetch
    /\ btnDisabled' = TRUE
    /\ IF variant = "selector" THEN selDisabled' = TRUE ELSE UNCHANGED selDisabled
    /\ btnText' = "Loading..."
    /\ gallery' = LoadingPlaceholder
    /\ clickPc' = "awaiting"
    /\ UNCHANGED <<variant, phase, allItems, selValue, selOptions, loadPc, everSucceeded>>
    /\ UNCHANGED modalVars
    /\ UNCHANGED <<factVars, fetchVars>>

\* the click handler when records are cached; it never suspends: script.js:86-120
ClickCached ==
    /\ phase = "ready"
    /\ ~btnDisabled
    /\ ~mustFetch
    /\ UNCHANGED <<variant, phase, allItems, selValue, selOptions, clickPc, loadPc,
                   everSucceeded>>
    /\ UNCHANGED modalVars
    /\ UNCHANGED <<factVars, fetchVars>>
    /\ gallery' = renderGallery(itemsToDisplay(allItems, selValue))
    /\ clickFinally

\* the click handler after its await: script.js:98-120, part_000:50-60
ClickCompleteWith(resp) ==
    /\ clickPc = "awaiting"
    /\   LET r == fetchCdnJson(resp)
         IN  IF ~r.threw
             THEN /\ IF variant = "selector"
                     THEN /\ allItems' = r.data
                          /\ populateDateSelector(r.data)
                          \* dateSelector.value is read after the options were rebuilt
                          /\ gallery' = renderGallery(itemsToDisplay(r.data, selValue'))
                     ELSE /\ gallery' = renderGallery(r.data)
                          /\ UNCHANGED <<allItems, selValue, selOptions>>
                  /\ everSucceeded' = TRUE
             ELSE /\ clickCatch
                  /\ UNCHANGED <<allItems, selValue, selOptions, everSucceeded>>
    /\ clickFinally
    /\ clickPc' = "idle"
    /\ UNCHANGED <<variant, phase, loadPc>>
    /\ UNCHANGED modalVars
    /\ UNCHANGED <<factVars, fetchVars>>

ClickComplete == \E resp \in Responses : ClickCompleteWith(resp)

\* the values the user can pick in the date selector
SelectableValues == {EmptyStr} \cup {selOptions[i] : i \in 1..Len(selOptions)}

\* the selector's change handler: script.js:124-137
SelectorChange ==
    /\ phase = "ready"
    /\ variant = "selector"
    /\ ~selDisabled
    /\ \E v \in SelectableValues :
         /\ v # selValue
         /\ selValue' = v
         /\ IF Len(allItems) > 0
            THEN gallery' = renderGallery(itemsToDisplay(allItems, v))
            ELSE UNCHANGED gallery
    /\ UNCHANGED <<variant, phase, allItems, btnDisabled, btnText, selDisabled,
                   selOptions, clickPc, loadPc, everSucceeded>>
    /\ UNCHANGED modalVars
    /\ UNCHANGED <<factVars, fetchVars>>

(***************************************************************************)
(* Cards and modal                                                         *)
(***************************************************************************)
CardHasLink(card) == card.media.tag \in {"a", "a-img"}

\* variant of linkGuard that never holds
linkGuard_never(insideLink) == FALSE

\* the handlers' early return, e.target.closest('a') on a click and
\* document.activeElement.closest('a') on a key: script.js:235, 245,
\* part_000:151, 161
linkGuard(insideLink) == insideLink

\* the click handler of card i; onLink: the click's target is inside the
\* card's link: script.js:233-238, part_000:149-154
CardClickOn(i, onLink) ==
    /\ onLink => CardHasLink(gallery.cards[i])
    /\ IF linkGuard(onLink)
       THEN UNCHANGED modalVars
       ELSE openModal(gallery.cards[i].item)
    /\ UNCHANGED <<variant, phase>>
    /\ UNCHANGED <<factVars, fetchVars>>
    /\ UNCHANGED feedVars

CardClick ==
    \E i \in 1..Len(gallery.cards) : \E onLink \in BOOLEAN : CardClickOn(i, onLink)

\* the Escape handler on window: script.js:406-410, part_000:300-304
escapeHandler(key) ==
    IF key = "Escape" /\ ~modalHidden THEN closeModal ELSE UNCHANGED modalVars

Keys == {"Enter", " ", "Escape", "Tab"}

\* a key pressed with the focus in card i; focusOnLink: the focus is inside
\* the card's link. The card's keydown handler (script.js:241-251,
\* part_000:157-167), then the one on window
CardKeyOn(i, key, focusOnLink) ==
    /\ focusOnLink => CardHasLink(gallery.cards[i])
    /\ IF key \in {"Enter", " "}
       THEN IF linkGuard(focusOnLink)
            THEN UNCHANGED modalVars
            ELSE openModal(gallery.cards[i].item)
       ELSE escapeHandler(key)
    /\ UNCHANGED <<variant, phase>>
    /\ UNCHANGED <<factVars, fetchVars>>
    /\ UNCHANGED feedVars

CardKey ==
    \E i \in 1..Len(gallery.cards) : \E key \in Keys : \E focusOnLink \in BOOLEAN :
        CardKeyOn(i, key, focusOnLink)

\* a key pressed with the focus elsewhere: script.js:406-410, part_000:300-304
WindowKey ==
    /\ \E key \in Keys : escapeHandler(key)
    /\ UNCHANGED <<variant, phase>>
    /\ UNCHANGED <<factVars, fetchVars>>
    /\ UNCHANGED feedVars

\* the "Play inline" button's handler: script.js:350-365, part_000:244-259
playInline(embedUrl) == modalMedia' = << El("iframe", embedUrl, "", "", "") >>

PlayInline ==
    /\ \E i \in 1..Len(modalMedia) :
         /\ modalMedia[i].tag = "controls"
         /\ modalMedia[i].play # ""
         /\ playInline(modalMedia[i].play)
    /\ UNCHANGED <<modalHidden, modalTitle, modalDate, modalExplanation>>
    /\ UNCHANGED <<variant, phase>>
    /\ UNCHANGED <<factVars, fetchVars>>
    /\ UNCHANGED feedVars

\* click on the close control: script.js:404, part_000:298
CloseClick ==
    /\ closeModal
    /\ UNCHANGED <<variant, phase>>
    /\ UNCHANGED <<factVars, fetchVars>>
    /\ UNCHANGED feedVars

\* click on the overlay: script.js:405, part_000:299
OverlayClick ==
    /\ closeModal
    /\ UNCHANGED <<variant, phase>>
    /\ UNCHANGED <<factVars, fetchVars>>
    /\ UNCHANGED feedVars

(***************************************************************************)
(* Fact panel (script.js only)                                             *)
(***************************************************************************)
\* variant of factReset that hides the panel and sets no timer
factReset_noTimer ==
    /\ factVisible' = FALSE
    /\ factHidden' = TRUE
    /\ UNCHANGED factTimers

\* the branch taken when the panel is visible: script.js:68-77
factReset ==
    /\ factVisible' = FALSE
    /\ factHidden' = TRUE
    /\ factTimers' = Append(factTimers, TicksPerDelay)

\* variant of factShow that leaves the class 'hidden' in place
factShow_keepsHidden ==
    /\ UNCHANGED factHidden
    /\ factVisible' = TRUE

\* the timer's callback and the branch taken otherwise: script.js:75-76, 80-81
factShow ==
    /\ factHidden' = FALSE
    /\ factVisible' = TRUE

\* getFactBtn's click handler when randomFact() returns fact: script.js:62-83
FactClickWith(fact) ==
    /\ phase = "ready"
    /\ variant = "selector"
    /\ factVisible => Len(factTimers) < MaxTimers
    /\ factText' = fact
    /\ IF factVisible
       THEN factReset
       ELSE factShow /\ UNCHANGED factTimers
    /\ UNCHANGED <<pageVars, fetchVars>>

FactClick == \E fact \in randomFact : FactClickWith(fact)

\* the oldest pending timer fires once its delay has passed: script.js:74-77
FactTimer ==
    /\ factTimers # << >>
    /\ Head(factTimers) = 0
    /\ factShow
    /\ factTimers' = Tail(factTimers)
    /\ UNCHANGED <<factText, pageVars, fetchVars>>

\* the clock advances by one tick; a timer that is due may still be waiting
\* for the event loop
Tick ==
    /\ \E i \in 1..Len(factTimers) : factTimers[i] > 0
    /\ factTimers' = [i \in 1..Len(factTimers) |->
                        IF factTimers[i] > 0 THEN factTimers[i] - 1 ELSE 0]
    /\ UNCHANGED <<factText, factVisible, factHidden, pageVars, fetchVars>>

(***************************************************************************)
(* One caller of fetchCdnJson                                              *)
(***************************************************************************)
\* fetchCdnJson up to its first await; fetch(url) is the one place a request
\* is made: script.js:148-150, part_000:72-74
FetchCall ==
    /\ fcPc # "awaiting"
    /\ fcCalls < MaxCalls
    /\ fcCalls' = fcCalls + 1
    /\ fcRequests' = fcRequests + 1
    /\ fcPc' = "awaiting"
    /\ UNCHANGED <<fcResp, fcResult, pageVars, factVars>>

\* fetchCdnJson from the response to its return or throw: script.js:150-162,
\* part_000:74-86
FetchSettleWith(resp) ==
    /\ fcPc = "awaiting"
    /\ fcResp' = resp
    /\ fcResult' = fetchCdnJson(resp)
    /\ fcPc' = IF fetchCdnJson(resp).threw THEN "threw" ELSE "returned"
    /\ UNCHANGED <<fcCalls, fcRequests, pageVars, factVars>>

FetchSettle == \E resp \in Responses : FetchSettleWith(resp)

Next ==
    \/ InitPage
    \/ LoadComplete
    \/ ClickStart
    \/ ClickCached
    \/ ClickComplete
    \/ SelectorChange
    \/ CardClick
    \/ CardKey
    \/ WindowKey
    \/ PlayInline
    \/ CloseClick
    \/ OverlayClick

Spec == Init /\ [][Next]_vars

\* the page used through the fetch button and the date selector only (the
\* cards and the modal leave what these handlers read and write untouched)
NextFeed ==
    \/ InitPage
    \/ LoadComplete
    \/ ClickStart
    \/ ClickCached
    \/ ClickComplete
    \/ SelectorChange

SpecFeed == Init /\ [][NextFeed]_vars

\* every retrieval started by the fetch button completes or fails
FairSpecFeed == SpecFeed /\ WF_vars(ClickComplete)

(***************************************************************************)
(* The views of one record: the page after a feed of a single record, any  *)
(* combination of fields, has been loaded and rendered by the fetch button *)
(***************************************************************************)
InitView ==
    /\ variant \in Variants
    /\ phase = "ready"
    /\ \E r \in AllRecords :
         /\ allItems = IF variant = "selector" THEN <<r>> ELSE << >>
         /\ selOptions = IF variant = "selector" THEN dateOptions(<<r>>) ELSE << >>
         /\ gallery = renderGallery(<<r>>)
    /\ btnDisabled = FALSE
    /\ btnText = ReadyText
    /\ selDisabled = FALSE
    /\ selValue = EmptyStr
    /\ clickPc = "idle"
    /\ loadPc = IF variant = "selector" THEN "done" ELSE "idle"
    /\ modalHidden = TRUE
    /\ modalMedia = << >>
    /\ modalTitle = ""
    /\ modalDate = EmptyStr
    /\ modalExplanation = ""
    /\ everSucceeded = TRUE
    /\ factText = IF variant = "plain" THEN SPACE_FACTS[1] ELSE ""
    /\ factVisible = FALSE
    /\ factHidden = FALSE
    /\ factTimers = << >>
    /\ fcPc = "idle"
    /\ fcCalls = 0
    /\ fcRequests = 0
    /\ fcResp = NoResponse
    /\ fcResult = NoResult

NextView ==
    \/ CardClick
    \/ CardKey
    \/ WindowKey
    \/ PlayInline
    \/ CloseClick
    \/ OverlayClick

SpecView == InitView /\ [][NextView]_vars

(***************************************************************************)
(* The cards of one feed: the page after a feed of sample records has been *)
(* loaded and rendered by the fetch button, and the modal used from there  *)
(***************************************************************************)
InitCards ==
    /\ variant \in Variants
    /\ phase = "ready"
    /\ \E feed \in Feeds \ {<< >>} :
         /\ allItems = IF variant = "selector" THEN feed ELSE << >>
         /\ selOptions = IF variant = "selector" THEN dateOptions(feed) ELSE << >>
         /\ gallery = renderGallery(feed)
    /\ btnDisabled = FALSE
    /\ btnText = ReadyText
    /\ selDisabled = FALSE
    /\ selValue = EmptyStr
    /\ clickPc = "idle"
    /\ loadPc = IF variant = "selector" THEN "done" ELSE "idle"
    /\ modalHidden = TRUE
    /\ modalMedia = << >>
    /\ modalTitle = ""
    /\ modalDate = EmptyStr
    /\ modalExplanation = ""
    /\ everSucceeded = TRUE
    /\ factText = IF variant = "plain" THEN SPACE_FACTS[1] ELSE ""
    /\ factVisible = FALSE
    /\ factHidden = FALSE
    /\ factTimers = << >>
    /\ fcPc = "idle"
    /\ fcCalls = 0
    /\ fcRequests = 0
    /\ fcResp = NoResponse
    /\ fcResult = NoResult

NextCards ==
    \/ CardClick
    \/ CardKey
    \/ WindowKey
    \/ PlayInline
    \/ CloseClick
    \/ OverlayClick

SpecCards == InitCards /\ [][NextCards]_vars

(***************************************************************************)
(* The fact panel of script.js, from the page as init() leaves it          *)
(***************************************************************************)
\* the page of script.js once init() has returned: script.js:45-138, 413-419
PageAfterInit ==
    /\ variant = "selector"
    /\ phase = "ready"
    /\ allItems = << >>
    /\ btnDisabled = FALSE
    /\ btnText = "initial"
    /\ selDisabled = TRUE
    /\ selValue = EmptyStr
    /\ selOptions = << >>
    /\ gallery = InitialPlaceholder
    /\ clickPc = "idle"
    /\ loadPc = "awaiting"
    /\ modalHidden = TRUE
    /\ modalMedia = << >>
    /\ modalTitle = ""
    /\ modalDate = EmptyStr
    /\ modalExplanation = ""
    /\ everSucceeded = FALSE

\* the panel's markup may or may not carry the class 'hidden'
InitFact ==
    /\ PageAfterInit
    /\ factText = ""
    /\ factVisible = FALSE
    /\ factHidden \in BOOLEAN
    /\ factTimers = << >>
    /\ fcPc = "idle"
    /\ fcCalls = 0
    /\ fcRequests = 0
    /\ fcResp = NoResponse
    /\ fcResult = NoResult

NextFact ==
    \/ FactClick
    \/ FactTimer
    \/ Tick

SpecFact == InitFact /\ [][NextFact]_vars

\* the event loop runs every due timer, and time passes
FairSpecFact == SpecFact /\ WF_vars(FactTimer) /\ WF_vars(Tick)

(***************************************************************************)
(* fetchCdnJson, called by one caller                                      *)
(***************************************************************************)
InitFetch ==
    /\ PageAfterInit
    /\ factText = ""
    /\ factVisible = FALSE
    /\ factHidden = FALSE
    /\ factTimers = << >>
    /\ fcPc = "idle"
    /\ fcCalls = 0
    /\ fcRequests = 0
    /\ fcResp = NoResponse
    /\ fcResult = NoResult

NextFetch ==
    \/ FetchCall
    \/ FetchSettle

SpecFetch == InitFetch /\ [][NextFetch]_vars

(***************************************************************************)
(* Properties                                                              *)
(***************************************************************************)
\* the records whose cards the gallery holds, in order
Shown(g) == [i \in 1..Len(g.cards) |-> g.cards[i].item]

\* the records a selector value selects
VisibleRecords(records, value) ==
    IF value = EmptyStr THEN records
    ELSE SelectSeq(records, LAMBDA r : r.date = value)

IsProperPrefix(a, b) == Len(a) < Len(b) /\ SubSeq(b, 1, Len(a)) = a

ArrayResponse(data) == [ok |-> TRUE, parses |-> TRUE, isArray |-> TRUE, data |-> data]
FailedResponses == {resp \in Responses : fetchCdnJson(resp).threw}

\* in script.js, the button's retrieval completes with an array (which the
\* handler then holds)
ClickSucceeded ==
    /\ clickPc = "awaiting"
    /\ variant = "selector"
    /\ ArrayResponse(allItems') \in Responses
    /\ ClickCompleteWith(ArrayResponse(allItems'))

\* the button's retrieval fails
ClickFailed ==
    /\ clickPc = "awaiting"
    /\ \E resp \in FailedResponses : ClickCompleteWith(resp)

\* C1: in script.js, the records the fetch-button handler and the
\* date-selector change handler render are all held records, in order, when
\* the selector value is empty, and otherwise exactly the held records whose
\* date equals the value, in order (none when no date equals it).
C1_HandlersRenderVisibleRecords ==
    [][ (variant = "selector"
         /\ UNCHANGED modalVars      \* true of the three handlers
         /\ vars' # vars             \* steps that change nothing are outside the property
         /\ (ClickCached \/ ClickSucceeded \/ (SelectorChange /\ Len(allItems) > 0)))
        => /\ Shown(gallery') = VisibleRecords(allItems', selValue')
           /\ gallery'.kind = IF VisibleRecords(allItems', selValue') = << >>
                              THEN "empty" ELSE "cards" ]_vars

\* a date is selected, a record dated with a proper prefix of it is held and is
\* not among the cards shown
C1_Witness ==
    /\ variant = "selector"
    /\ clickPc = "idle"
    /\ selValue # EmptyStr
    /\ gallery.kind = "cards"
    /\ \A i \in 1..Len(gallery.cards) : gallery.cards[i].item.date = selValue
    /\ \E i \in 1..Len(allItems) : IsProperPrefix(allItems[i].date, selValue)

\* a step that starts a network retrieval of the feed
FetchIssued ==
    \/ clickPc # "awaiting" /\ clickPc' = "awaiting"
    \/ loadPc # "awaiting" /\ loadPc' = "awaiting"

C3_LoadingWhileOutstanding ==
    clickPc = "awaiting" => btnDisabled /\ gallery = LoadingPlaceholder

\* C4: when a retrieval started by the fetch button fails, the gallery shows
\* the error placeholder and no cards, the button is enabled and ready again,
\* and the held record set is unchanged.
C4_FailureShowsErrorKeepsRecords ==
    [][ ClickFailed
        => /\ gallery' = ErrorPlaceholder
           /\ ~btnDisabled'
           /\ btnText' = ReadyText
           /\ clickPc' = "idle"
           /\ allItems' = allItems ]_vars

\* a button retrieval has failed while records were held
C4_Witness ==
    /\ gallery = ErrorPlaceholder
    /\ ~btnDisabled
    /\ clickPc = "idle"
    /\ Len(allItems) > 0

\* Escape pressed with the focus outside the cards
EscapePressed ==
    /\ escapeHandler("Escape")
    /\ UNCHANGED <<variant, phase>>
    /\ UNCHANGED <<factVars, fetchVars>>
    /\ UNCHANGED feedVars

\* C5: from any state with the modal open, the close control, a click on the
\* overlay and Escape all lead to the same state: the modal hidden, its media
\* area empty, everything else as it was.
C5_ClosingRoutesAgree ==
    [][ (~modalHidden /\ (CloseClick \/ OverlayClick \/ EscapePressed))
        => /\ modalHidden'
           /\ modalMedia' = << >>
           /\ UNCHANGED <<modalTitle, modalDate, modalExplanation, variant, phase>>
           /\ UNCHANGED feedVars ]_vars

\* the modal has been opened and closed again
C5_Witness ==
    /\ modalHidden
    /\ modalTitle # ""
    /\ modalMedia = << >>

\* C6: the date selector never holds the same date twice.
C6_NoDuplicateOptions ==
    \A i, j \in 1..Len(selOptions) : i # j => selOptions[i] # selOptions[j]

\* a is before or equal to b in lexicographic order of the character codes
LexLeq(a, b) ==
    \/ a = b
    \/ IsProperPrefix(a, b)
    \/ \E k \in 1..Len(a) :
         /\ k <= Len(b)
         /\ SubSeq(a, 1, k - 1) = SubSeq(b, 1, k - 1)
         /\ a[k] < b[k]

\* C7: the options after "All dates" are non-empty dates of the held records,
\* every non-empty date of a record is among them, and they are in descending
\* lexicographic order.
C7_OptionsNonEmptyDescending ==
    variant = "selector" =>
        /\ \A i \in 1..Len(selOptions) :
             /\ selOptions[i] # EmptyStr
             /\ \E k \in 1..Len(allItems) : allItems[k].date = selOptions[i]
        /\ \A k \in 1..Len(allItems) :
             allItems[k].date # EmptyStr
                => \E i \in 1..Len(selOptions) : selOptions[i] = allItems[k].date
        /\ \A i \in 1..(Len(selOptions) - 1) : LexLeq(selOptions[i + 1], selOptions[i])

\* two different dates, delivered in ascending order, are listed in
\* descending order
C7_Witness ==
    /\ Len(selOptions) = 2
    /\ selOptions[1] # selOptions[2]
    /\ Len(allItems) = 2
    /\ allItems[1].date = selOptions[2]
    /\ allItems[2].date = selOptions[1]

\* C8: a card's media element is decided by the first matching rule of:
\* image with url -> inline image of url; otherwise url and thumbnail_url ->
\* thumbnail linked to url; otherwise url -> plain link "Open"; no url -> none.
C8_CardMediaPrecedence ==
    \A i \in 1..Len(gallery.cards) :
        LET r == gallery.cards[i].item
            m == gallery.cards[i].media
        IN  /\ (r.media_type = "image" /\ r.url # "")
                => m.tag = "img" /\ m.src = r.url /\ m.href = ""
            /\ (r.media_type # "image" /\ r.url # "" /\ r.thumbnail_url # "")
                => m.tag = "a-img" /\ m.src = r.thumbnail_url /\ m.href = r.url
            /\ (r.media_type # "image" /\ r.url # "" /\ r.thumbnail_url = "")
                => m.tag = "a" /\ m.href = r.url /\ m.text = "Open" /\ m.src = ""
            /\ r.url = "" => m = NoEl

\* an image record with url and thumbnail_url is shown as an inline image
C8_Witness ==
    \E i \in 1..Len(gallery.cards) :
        /\ gallery.cards[i].item.media_type = "image"
        /\ gallery.cards[i].item.url # ""
        /\ gallery.cards[i].item.thumbnail_url # ""
        /\ gallery.cards[i].media.tag = "img"

\* C9: opening the modal for an image record shows one image, of hdurl when
\* present and else of url, and no media element when both are missing.
C9_ModalImagePrefersHd ==
    [][ \A r \in AllRecords :
          (r.media_type = "image" /\ openModal(r))
            => modalMedia' = IF r.hdurl # "" THEN << El("img", r.hdurl, "", "", "") >>
                             ELSE IF r.url # "" THEN << El("img", r.url, "", "", "") >>
                             ELSE << >> ]_vars

\* the modal is open on an image record that has url and hdurl, showing hdurl
C9_Witness ==
    /\ ~modalHidden
    /\ modalMedia = << El("img", HdUrl, "", "", "") >>
    /\ \E i \in 1..Len(gallery.cards) :
         /\ gallery.cards[i].item.media_type = "image"
         /\ gallery.cards[i].item.hdurl = HdUrl
         /\ gallery.cards[i].item.url # ""

\* the URLs of the recognized video host
RecognizedVideoUrl(url) == url = TubeUrl

\* C10: opening the modal for a video record without thumbnail_url whose url
\* is not a recognized video-hosting URL gives an open modal with the "no
\* thumbnail available" message, no "play inline" action and the "open in
\* new tab" link.
C10_UnrecognizedVideoModal ==
    [][ \A r \in AllRecords :
          (/\ r.media_type = "video"
           /\ r.thumbnail_url = ""
           /\ ~RecognizedVideoUrl(r.url)
           /\ openModal(r))
            => /\ ~modalHidden'
               /\ Len(modalMedia') = 2
               /\ modalMedia'[1].tag = "p"
               /\ modalMedia'[1].text = "Video (no thumbnail available)."
               /\ modalMedia'[2].tag = "controls"
               /\ modalMedia'[2].play = ""
               /\ modalMedia'[2].text = "Open video in new tab"
               /\ modalMedia'[2].href = r.url ]_vars

\* the modal is open on such a record
C10_Witness ==
    /\ ~modalHidden
    /\ Len(modalMedia) = 2
    /\ modalMedia[1].tag = "p"
    /\ modalMedia[2].tag = "controls"
    /\ modalMedia[2].href = OtherVideoUrl
    /\ \E i \in 1..Len(gallery.cards) :
         /\ gallery.cards[i].item.media_type = "video"
         /\ gallery.cards[i].item.thumbnail_url = ""
         /\ gallery.cards[i].item.url = OtherVideoUrl


\* an embedded player is among the modal's media
HasPlayer(media) == \E i \in 1..Len(media) : media[i].tag = "iframe"

\* the step of a "Play inline" button that the modal shows: the media become
\* the player of that button's embed URL, the rest of the modal stays
PlayStep ==
    /\ \E i \in 1..Len(modalMedia) :
         /\ modalMedia[i].tag = "controls"
         /\ modalMedia[i].play # ""
         /\ modalMedia' = << El("iframe", modalMedia[i].play, "", "", "") >>
    /\ UNCHANGED <<modalHidden, modalTitle, modalDate, modalExplanation>>

\* C11: an embedded player is in the modal after a step only if the modal is
\* open and either the step is the "Play inline" action of the controls the
\* modal was showing, or the player was there before and the step left the
\* modal as it was; so no step that opens a modal (each replaces the media)
\* ends with a player.
C11_PlayerOnlyByPlayInline ==
    [][ HasPlayer(modalMedia')
        => /\ ~modalHidden'
           /\ \/ HasPlayer(modalMedia) /\ UNCHANGED modalVars
              \/ PlayStep ]_vars

\* the player of the recognised video is in the open modal
C11_Witness ==
    /\ ~modalHidden
    /\ modalMedia = << El("iframe", getYouTubeEmbedUrl(TubeUrl), "", "", "") >>

\* the modal shows the record item, and nothing else
ModalShowing(item) ==
    /\ ~modalHidden
    /\ modalTitle = (IF item.title # "" THEN item.title ELSE "Untitled")
    /\ modalExplanation = item.explanation
    /\ modalMedia = modalMediaFor(item)
    /\ modalDate = (IF variant = "selector" THEN formatDate(item.date) ELSE item.date)

ActivationKeys == {"Enter", " "}

\* C12: for every card, a click whose target is not inside a link of the
\* card, and Enter or Space pressed with the focus in the card and not inside
\* a link of it, are the same step, after which the modal shows that card's
\* record; a click whose target is inside the card's link, or Enter or Space
\* with the focus inside it, leaves the modal as it was.
C12_CardActivation ==
    [][ UNCHANGED feedVars
        => \A i \in 1..Len(gallery.cards) :
             /\ CardClickOn(i, FALSE) => ModalShowing(gallery.cards[i].item)'
             /\ \A key \in ActivationKeys :
                  CardKeyOn(i, key, FALSE) <=> CardClickOn(i, FALSE)
             /\ CardHasLink(gallery.cards[i])
                  => /\ CardClickOn(i, TRUE) => UNCHANGED modalVars
                     /\ \A key \in ActivationKeys :
                          CardKeyOn(i, key, TRUE) => UNCHANGED modalVars ]_vars

\* the modal shows the record of a card that holds a link
C12_Witness ==
    \E i \in 1..Len(gallery.cards) :
        /\ CardHasLink(gallery.cards[i])
        /\ ModalShowing(gallery.cards[i].item)

\* C13: the selector's value changes in no step other than the selector's
\* change handler acting on the user's choice.
C13_ValueChangesOnlyBySelector ==
    [][ selValue' # selValue => SelectorChange ]_vars

\* C14: in script.js, when the retrieval started by the fetch button delivers
\* an empty array, the handler ends with the gallery showing the "No items
\* found" placeholder, the selector holding no option besides "All dates"
\* (which is selected), no records held, and the button ready again.
C14_EmptyFeed ==
    [][ (variant = "selector"
         /\ clickPc = "awaiting"
         /\ ClickCompleteWith(ArrayResponse(<< >>)))
        => /\ gallery' = [kind |-> "empty", cards |-> << >>]
           /\ selOptions' = << >>
           /\ selValue' = EmptyStr
           /\ allItems' = << >>
           /\ clickPc' = "idle"
           /\ ~btnDisabled' ]_vars

\* the button's retrieval has delivered the empty array, with no other
\* retrieval outstanding
C14_Witness ==
    /\ variant = "selector"
    /\ gallery.kind = "empty"
    /\ selOptions = << >>
    /\ allItems = << >>
    /\ everSucceeded
    /\ clickPc = "idle"
    /\ loadPc = "done"
    /\ btnText = ReadyText

\* the page-load retrieval fails
LoadFailed ==
    /\ loadPc = "awaiting"
    /\ \E resp \in FailedResponses : LoadCompleteWith(resp)

\* a click on the fetch button that the handler accepts
ButtonClick == UNCHANGED modalVars /\ (ClickStart \/ ClickCached)

\* C15: a failed retrieval, of either flow, ends with no records held and
\* issues no retrieval itself; the click that follows a failed button
\* retrieval (the error placeholder is still shown) issues one; and a
\* retrieval is issued only by the page start or by a click on the button.
C15_FailedLoadLeavesEmptyAndRetries ==
    [][ /\ (UNCHANGED modalVars /\ (LoadFailed \/ ClickFailed))
             => Len(allItems') = 0 /\ ~FetchIssued
        /\ (gallery.kind = "error" /\ clickPc = "idle" /\ ButtonClick)
             => FetchIssued
        /\ FetchIssued => (InitPage \/ ClickStart) ]_vars

\* the open modal holds the title, date and explanation of the record item,
\* and as media either those openModal derives from it or its player
ModalOfOneRecord(item) ==
    \/ ModalShowing(item)
    \/ /\ ~modalHidden
       /\ modalTitle = (IF item.title # "" THEN item.title ELSE "Untitled")
       /\ modalExplanation = item.explanation
       /\ item.media_type = "video"
       /\ getYouTubeEmbedUrl(item.url) # ""
       /\ modalMedia = << El("iframe", getYouTubeEmbedUrl(item.url), "", "", "") >>
       /\ modalDate = (IF variant = "selector" THEN formatDate(item.date) ELSE item.date)

\* a card is activated while the modal is open and the modal changes
OpensOver(i) ==
    /\ ~modalHidden
    /\ modalVars' # modalVars
    /\ UNCHANGED feedVars
    /\ CardClickOn(i, FALSE) \/ \E key \in ActivationKeys : CardKeyOn(i, key, FALSE)

\* C16: the open modal always holds the title, date, explanation and media
\* of one single record; and opening a card while the modal is open, whatever
\* it held (a player included), ends with the modal holding exactly what
\* openModal derives from that card's record, with no player.
C16_OpenReplaces ==
    /\ [](~modalHidden => \E item \in SampleRecords : ModalOfOneRecord(item))
    /\ [][ \A i \in 1..Len(gallery.cards) :
             OpensOver(i) => /\ ModalShowing(gallery.cards[i].item)'
                             /\ ~HasPlayer(modalMedia') ]_vars

\* two different records are shown as cards and the modal holds the one that
\* has no video, while the other is a recognised video
C16_Witness ==
    /\ Len(gallery.cards) = 2
    /\ gallery.cards[1].item.url = TubeUrl
    /\ gallery.cards[2].item.url = ImgUrl
    /\ ModalShowing(gallery.cards[2].item)

\* a pending timer has fired
TimerFired == Len(factTimers') < Len(factTimers)

\* C17: a fact request sets the panel's text to the chosen fact; made while
\* the panel is not visible it makes the panel visible (and not hidden) in
\* the same step and sets no timer; made while the panel is visible it makes
\* the panel hidden (and not visible) and sets one timer of the full delay.
\* A timer fires only when its delay has passed, and then the panel is
\* visible, not hidden, and shows the text of the latest request. With due
\* timers always run, a panel hidden by a request becomes visible again.
C17_FactPanelToggle ==
    /\ [][ \A fact \in randomFact :
             FactClickWith(fact)
             => /\ factText' = fact
                /\ IF factVisible
                   THEN /\ ~factVisible' /\ factHidden'
                        /\ factTimers' = factTimers \o << TicksPerDelay >>
                   ELSE /\ factVisible' /\ ~factHidden'
                        /\ factTimers' = factTimers ]_vars
    /\ [][ TimerFired
           => /\ Head(factTimers) = 0
              /\ factVisible' /\ ~factHidden'
              /\ factText' = factText ]_vars
    /\ ((~factVisible /\ factTimers # << >>) ~> factVisible)

\* a request has hidden the visible panel and set the new text, and the delay
\* has passed: the timer is due
C17_Witness ==
    /\ factHidden
    /\ ~factVisible
    /\ factTimers = << 0 >>
    /\ factText \in randomFact

\* C18: every call of fetchCdnJson has made exactly one request (the requests
\* made equal the calls made, at every moment); a call returns exactly when
\* the response has a success status, its body parses and the parsed value
\* is an array, and what it returns is that array as parsed; in every other
\* case it throws.
C18_FetchCdnJson ==
    /\ fcRequests = fcCalls
    /\ fcPc \in {"returned", "threw"}
         => /\ fcPc = "returned" <=> (fcResp.ok /\ fcResp.parses /\ fcResp.isArray)
            /\ fcPc = "returned" => (~fcResult.threw /\ fcResult.data = fcResp.data)
            /\ fcPc = "threw" => fcResult.threw

\* a second call has returned a non-empty array
C18_Witness ==
    /\ fcCalls = 2
    /\ fcRequests = 2
    /\ fcPc = "returned"
    /\ Len(fcResult.data) > 0

\* C19: in script.js, whenever no retrieval is outstanding and the gallery
\* shows cards, the cards are those of the held records that the selector's
\* value selects, in order.
C19_CardsMatchSelection ==
    (variant = "selector"
     /\ clickPc # "awaiting"
     /\ loadPc # "awaiting"
     /\ gallery.kind = "cards")
    => Shown(gallery) = VisibleRecords(allItems, selValue)

\* C20: the page-load retrieval and a retrieval started by the fetch button
\* are never outstanding together.
C20_OneRetrievalAtATime == ~(loadPc = "awaiting" /\ clickPc = "awaiting")

\* C21: in script.js the date selector is disabled whenever a retrieval is
\* outstanding, whichever flow started it.
C21_SelectorDisabledWhileLoading ==
    (variant = "selector" /\ (loadPc = "awaiting" \/ clickPc = "awaiting"))
    => selDisabled

\* what the gallery shows when a click handler has finished
SettledKinds == {"cards", "empty", "error"}

\* a run of the click handler ends: with its retrieval, or without one
ClickHandlerEnds ==
    /\ UNCHANGED modalVars
    /\ \/ clickPc = "awaiting" /\ clickPc' = "idle"
       \/ clickPc = "idle" /\ ~btnDisabled /\ vars' # vars /\ ClickCached

\* C22: the gallery shows the loading placeholder only while the fetch
\* button is disabled; every run of the click handler that ends leaves the
\* button enabled and the gallery showing cards, the "No items found"
\* placeholder or the error placeholder; and, every retrieval completing or
\* failing, a click that started one is followed by such a state.
C22_ClickSettles ==
    /\ [](gallery = LoadingPlaceholder => btnDisabled)
    /\ [][ ClickHandlerEnds
           => ~btnDisabled' /\ gallery'.kind \in SettledKinds ]_vars
    /\ (clickPc = "awaiting" ~> (~btnDisabled /\ gallery.kind \in SettledKinds))

\* a click's retrieval has failed: the error placeholder is shown and the
\* button is enabled again
C22_Witness ==
    /\ gallery = ErrorPlaceholder
    /\ clickPc = "idle"
    /\ ~btnDisabled
    /\ btnText = ReadyText

\* at least one fact request has been made (only requests set the text)
FactRequested == factText \in randomFact

\* C23: the fact panel never carries both 'hidden' and 'visible'; and when a
\* request has been made and no timer is pending, it carries 'visible'.
C23_FactPanelMarks ==
    /\ ~(factHidden /\ factVisible)
    /\ (FactRequested /\ factTimers = << >>) => factVisible

\* the panel is visible while the timer of an earlier request is still
\* pending: a request was made during the waiting interval
C23_Witness ==
    /\ factVisible
    /\ ~factHidden
    /\ factTimers # << >>

====
